---- MODULE Spec2Model ----
(***************************************************************************)
(* LancasterLink journey planner core: the time-dependent transport graph  *)
(* (graph_builder.py), the cost model (cost_function.py, heuristics.py)    *)
(* and the modified-Dijkstra k-alternatives search (router.py).            *)
(*                                                                         *)
(* Units.  A clock time (datetime.time) is its second of the day,          *)
(* 0 .. 86399.  Every float that is a number of minutes (costs, waits,     *)
(* walk_time_mins, thresholds) is held as an integer count of 1/120        *)
(* minute (half seconds), so that wait * 1.5 and the 0.5 s resolution of   *)
(* a walking time stay exact.  hub_score and the delay ratios are held in  *)
(* tenths.  Python's None is <<>> for an optional value, the empty string  *)
(* for prev_atco, NoRoute for a leg's route_id and NoEdge for a node's     *)
(* edge.                                                                   *)
(***************************************************************************)
EXTENDS Integers, Sequences, FiniteSets, TLC

\* ---------------------------------------------------------------- bounds
\* A query asks for 1 .. MaxResultsBound plans.
MaxResultsBound == 2
\* A trip takes 5 .. MaxHopMins minutes between two stops.
MaxHopMins == 6
\* Trips start at one of NumStarts clock times, ten minutes apart.
NumStarts == 2
\* The optimality and completeness oracles enumerate journeys of at most
\* MaxJourneyEdges edges.
MaxJourneyEdges == 3

\* ------------------------------------------------------- program constants
MIN_TRANSFER_MINS == 5
WAIT_PENALTY_FACTOR_TENTHS == 15
HUB_MAX_BONUS_MINS == 5
DELAY_MAX_PENALTY_MINS == 10
HUB_THRESHOLD_TENTHS == 7
HUB_TOLERANCE_MINS == 1
MIN_THRESHOLD_MINS == 2
MAX_EXPANSIONS == 50000
SECONDS_PER_DAY == 86400
NoRoute == 0

\* Units of a minute-valued float: 1/120 minute.
U == 2 * 60
Mins(m) == m * U
DayUnits == 24 * 60 * U

Min(a, b) == IF a < b THEN a ELSE b
Max(a, b) == IF a > b THEN a ELSE b

\* ------------------------------------------------------------ clock times
Clock(h, m, s) == h * 3600 + m * 60 + s
Hour(t) == t \div 3600
Minute(t) == (t % 3600) \div 60
Second(t) == t % 60

\* graph_builder._time_ge: tuple comparison of (hour, minute, second).
LooseTimeGe(a, b) == TRUE
_time_ge(a, b) ==
    \/ Hour(a) > Hour(b)
    \/ Hour(a) = Hour(b) /\ Minute(a) > Minute(b)
    \/ Hour(a) = Hour(b) /\ Minute(a) = Minute(b) /\ Second(a) >= Second(b)

\* cost_function._minutes_between, in units.
NoWrapMinutesBetween(t_from, t_to) == (t_to - t_from) * 2
WrapsUpToFullDay(t_from, t_to) ==
    LET diff == (t_to - t_from) * 2
    IN  IF diff <= 0 THEN diff + DayUnits ELSE diff
_minutes_between(t_from, t_to) ==
    LET diff == (t_to - t_from) * 2
    IN  IF diff < 0 THEN diff + DayUnits ELSE diff

\* router._add_minutes: mins is in units; fractions of a second are cut.
_add_minutes(t, mins) ==
    LET total_half == (t * 2 + mins) % (SECONDS_PER_DAY * 2)
        total_seconds == total_half \div 2
    IN  Clock(total_seconds \div 3600,
              (total_seconds % 3600) \div 60,
              total_seconds % 60)

\* ------------------------------------------------------------------ edges
NoEdge ==
    [kind |-> "none", from_stop |-> "", to_stop |-> "", route_id |-> NoRoute,
     departure_time |-> 0, arrival_time |-> 0, transport_mode |-> "",
     walk_time_mins |-> 0, distance_metres |-> 0]

TransitEdge(f, t, r, dep, arr, mode) ==
    [kind |-> "transit", from_stop |-> f, to_stop |-> t, route_id |-> r,
     departure_time |-> dep, arrival_time |-> arr, transport_mode |-> mode,
     walk_time_mins |-> 0, distance_metres |-> 0]

WalkingEdge(f, t, w, dist) ==
    [kind |-> "walk", from_stop |-> f, to_stop |-> t, route_id |-> NoRoute,
     departure_time |-> 0, arrival_time |-> 0, transport_mode |-> "",
     walk_time_mins |-> w, distance_metres |-> dist]

\* TransitEdge.travel_minutes: hours and minutes only, in units.
travel_minutes(e) ==
    LET dep == Hour(e.departure_time) * 60 + Minute(e.departure_time)
        arr == Hour(e.arrival_time) * 60 + Minute(e.arrival_time)
        diff == arr - dep
    IN  Mins(IF diff < 0 THEN diff + 24 * 60 ELSE diff)

\* ------------------------------------------------------------------ state
VARIABLES
    _stops,                \* TransportGraph._stops: atco_code -> Stop
    _routes,               \* TransportGraph._routes: route_id -> Route
    _transit_edges,        \* TransportGraph._transit_edges: from_stop -> list
    _walking_edges,        \* TransportGraph._walking_edges: from_stop -> list
    _disrupted_route_ids,  \* TransportGraph._disrupted_route_ids
    snapshot,              \* the arguments build_graph was called with
    last_mutator,          \* history: route_id -> the mutator called last
    pc,                    \* "idle" | "search" | "returned" | "done" | "raised"
    origin_atco,           \* find_journeys arguments
    destination_atco,
    departure_time,
    max_results,
    results,               \* find_journeys: results
    excluded_first_edges,  \* find_journeys: excluded_first_edges
    searches,              \* find_journeys: iterations of the for loop begun
    pq,                    \* _dijkstra_search: the heapq list
    best_cost,             \* _dijkstra_search: best_cost
    predecessors,          \* _dijkstra_search: predecessors
    expansions,            \* _dijkstra_search: expansions
    current,               \* _dijkstra_search: the entry popped last
    push_log,              \* history: the entries this search pushed, in order
    plan,                  \* what the last _dijkstra_search returned
    call,                  \* the last call of a cost-model function, if any
    suspended,             \* the locals of a second caller's find_journeys
    solo                   \* history: what a query returned when run alone

graphVars ==
    <<_stops, _routes, _transit_edges, _walking_edges, _disrupted_route_ids>>
queryVars == <<origin_atco, destination_atco, departure_time, max_results>>
loopVars == <<results, excluded_first_edges, searches>>
searchVars == <<pq, best_cost, predecessors, expansions, current, push_log>>
inputVars == <<snapshot, last_mutator>>
envVars == <<call, suspended, solo>>
vars ==
    <<graphVars, inputVars, envVars, pc, queryVars, loopVars, searchVars, plan>>

\* ------------------------------------------------------------------ graph
\* dict.get(key) with None as <<>>.
get_stop(atco_code) ==
    IF atco_code \in DOMAIN _stops THEN <<_stops[atco_code]>> ELSE <<>>

get_route(route_id) ==
    IF route_id \in DOMAIN _routes THEN <<_routes[route_id]>> ELSE <<>>

\* TransportGraph.get_outgoing_transit_edges.
IgnoreDisruptions(atco_code, earliest_departure) ==
    LET all_edges == IF atco_code \in DOMAIN _transit_edges
                     THEN _transit_edges[atco_code] ELSE <<>>
    IN  SelectSeq(all_edges,
                  LAMBDA edge: _time_ge(edge.departure_time, earliest_departure))
NextDayDepartures(atco_code, earliest_departure) ==
    LET all_edges == IF atco_code \in DOMAIN _transit_edges
                     THEN _transit_edges[atco_code] ELSE <<>>
    IN  SelectSeq(all_edges,
                  LAMBDA edge: edge.route_id \notin _disrupted_route_ids)
get_outgoing_transit_edges(atco_code, earliest_departure) ==
    LET all_edges == IF atco_code \in DOMAIN _transit_edges
                     THEN _transit_edges[atco_code] ELSE <<>>
    IN  SelectSeq(all_edges,
                  LAMBDA edge:
                      /\ edge.route_id \notin _disrupted_route_ids
                      /\ _time_ge(edge.departure_time, earliest_departure))

\* TransportGraph.get_walking_edges.
get_walking_edges(atco_code) ==
    IF atco_code \in DOMAIN _walking_edges
    THEN _walking_edges[atco_code] ELSE <<>>

\* list.sort(key=...): stable, ascending; key[i] is the key of s[i].
StableSort(s, key) ==
    LET n == Len(s)
        Rank(i) == 1 + Cardinality({j \in 1..n :
                        \/ key[j] < key[i]
                        \/ key[j] = key[i] /\ j < i})
    IN  [p \in 1..n |-> s[CHOOSE i \in 1..n : Rank(i) = p]]

RECURSIVE ConcatAll(_)
ConcatAll(ss) == IF ss = <<>> THEN <<>> ELSE Head(ss) \o ConcatAll(Tail(ss))

\* The keys of a dict filled with setdefault, in insertion order.
RECURSIVE KeysInOrder(_, _)
KeysInOrder(ks, seen) ==
    IF ks = <<>> THEN <<>>
    ELSE IF Head(ks) \in seen THEN KeysInOrder(Tail(ks), seen)
    ELSE <<Head(ks)>> \o KeysInOrder(Tail(ks), seen \cup {Head(ks)})

\* TransportGraph.finalise applied to one per-stop list.
finalise(edges) ==
    StableSort(edges, [i \in 1..Len(edges) |->
                        Hour(edges[i].departure_time) * 60
                            + Minute(edges[i].departure_time)])

\* build_graph step 3 for one (route_id, trip_id) partition.
TripEdges(entries, route_id, mode) ==
    LET sorted == StableSort(entries, [i \in 1..Len(entries) |->
                                            entries[i].stop_sequence])
        n == Len(sorted)
        pairs == [i \in 1..(IF n = 0 THEN 0 ELSE n - 1) |->
                    <<sorted[i], sorted[i + 1]>>]
        usable == SelectSeq(pairs, LAMBDA p:
                    p[1].departure_time # <<>> /\ p[2].arrival_time # <<>>)
    IN  [i \in 1..Len(usable) |->
            TransitEdge(usable[i][1].stop_atco_code,
                        usable[i][2].stop_atco_code,
                        route_id,
                        usable[i][1].departure_time[1],
                        usable[i][2].arrival_time[1],
                        mode)]

\* build_graph step 4: the walking edges in the order they are added.
OneWayWalkingEdges(walking_connections) ==
    [k \in 1..Len(walking_connections) |->
        LET c == walking_connections[k]
        IN  WalkingEdge(c[1], c[2], c[3], c[4])]
WalkingEdgesOf(walking_connections) ==
    ConcatAll([k \in 1..Len(walking_connections) |->
        LET c == walking_connections[k]
        IN  <<WalkingEdge(c[1], c[2], c[3], c[4]),
              WalkingEdge(c[2], c[1], c[3], c[4])>>])

\* graph_builder.build_graph: the five tables of the finalised graph.
build_graph(stops, routes, timetable_entries, walking_connections, disrupted_route_ids) ==
    LET stopTable == [c \in {stops[i].atco_code : i \in 1..Len(stops)} |->
            stops[CHOOSE i \in 1..Len(stops) :
                    /\ stops[i].atco_code = c
                    /\ \A j \in (i + 1)..Len(stops) : stops[j].atco_code # c]]
        routeTable == [r \in {routes[i].route_id : i \in 1..Len(routes)} |->
            routes[CHOOSE i \in 1..Len(routes) :
                    /\ routes[i].route_id = r
                    /\ \A j \in (i + 1)..Len(routes) : routes[j].route_id # r]]
        keyOf(e) == <<e.route_id, e.trip_id>>
        keys == KeysInOrder([i \in 1..Len(timetable_entries) |->
                                keyOf(timetable_entries[i])], {})
        modeOf(r) == IF r \in DOMAIN routeTable
                     THEN routeTable[r].transport_mode ELSE "bus"
        transit == ConcatAll([k \in 1..Len(keys) |->
            TripEdges(SelectSeq(timetable_entries,
                                LAMBDA e: keyOf(e) = keys[k]),
                      keys[k][1], modeOf(keys[k][1]))])
        walking == WalkingEdgesOf(walking_connections)
    IN  [stops |-> stopTable,
         routes |-> routeTable,
         transit_edges |->
            [s \in {transit[i].from_stop : i \in 1..Len(transit)} |->
                finalise(SelectSeq(transit, LAMBDA e: e.from_stop = s))],
         walking_edges |->
            [s \in {walking[i].from_stop : i \in 1..Len(walking)} |->
                SelectSeq(walking, LAMBDA e: e.from_stop = s)],
         disrupted |-> {disrupted_route_ids[i] :
                            i \in 1..Len(disrupted_route_ids)}]

\* ------------------------------------------------------------- cost model
\* heuristics.hub_bonus: hub_score and hub_score_max in tenths.
hub_bonus(stop, hub_score_max) ==
    IF hub_score_max <= 0 THEN 0
    ELSE 0 - ((Mins(HUB_MAX_BONUS_MINS) * Min(stop.hub_score, hub_score_max))
                \div hub_score_max)

\* heuristics.delay_penalty: the ratios in tenths.
delay_penalty(stop_delay_ratio, route_delay_ratio) ==
    LET twice == Max(0, Min(stop_delay_ratio + route_delay_ratio, 20))
    IN  (Mins(DELAY_MAX_PENALTY_MINS) * twice) \div 20

\* heuristics.reliability_heuristic.
reliability_heuristic(stop, hub_score_max, stop_delay_ratio, route_delay_ratio) ==
    hub_bonus(stop, hub_score_max)
        + delay_penalty(stop_delay_ratio, route_delay_ratio)

\* cost_function.transit_edge_cost: <<>> is None (infeasible).
UnclampedTransitCost(edge, current_time, hub_score_max, stop_delay_ratio, route_delay_ratio) ==
    LET wait_mins == _minutes_between(current_time, edge.departure_time)
        dest_stop == get_stop(edge.to_stop)
        rel_heuristic ==
            IF dest_stop # <<>>
            THEN reliability_heuristic(dest_stop[1], hub_score_max,
                                       stop_delay_ratio, route_delay_ratio)
            ELSE 0
        total == (wait_mins * WAIT_PENALTY_FACTOR_TENTHS) \div 10
                    + travel_minutes(edge) + rel_heuristic
    IN  IF wait_mins < 0 THEN <<>> ELSE <<total>>
transit_edge_cost(edge, current_time, hub_score_max, stop_delay_ratio, route_delay_ratio) ==
    LET wait_mins == _minutes_between(current_time, edge.departure_time)
        dest_stop == get_stop(edge.to_stop)
        rel_heuristic ==
            IF dest_stop # <<>>
            THEN reliability_heuristic(dest_stop[1], hub_score_max,
                                       stop_delay_ratio, route_delay_ratio)
            ELSE 0
        total == (wait_mins * WAIT_PENALTY_FACTOR_TENTHS) \div 10
                    + travel_minutes(edge) + rel_heuristic
    IN  IF wait_mins < 0 THEN <<>> ELSE <<Max(total, 0)>>

\* cost_function.walking_edge_cost.
walking_edge_cost(edge) == edge.walk_time_mins

\* cost_function.is_fragile_connection.
HubFromThreshold(wait_mins, transfer_stop) ==
    LET threshold ==
            IF transfer_stop.hub_score >= HUB_THRESHOLD_TENTHS
            THEN Max(Mins(MIN_TRANSFER_MINS) - Mins(HUB_TOLERANCE_MINS),
                     Mins(MIN_THRESHOLD_MINS))
            ELSE Mins(MIN_TRANSFER_MINS)
    IN  wait_mins < threshold
NoHubRelaxation(wait_mins, transfer_stop) ==
    wait_mins < Mins(MIN_TRANSFER_MINS) - Mins(HUB_TOLERANCE_MINS)
is_fragile_connection(wait_mins, transfer_stop) ==
    LET threshold ==
            IF transfer_stop.hub_score > HUB_THRESHOLD_TENTHS
            THEN Max(Mins(MIN_TRANSFER_MINS) - Mins(HUB_TOLERANCE_MINS),
                     Mins(MIN_THRESHOLD_MINS))
            ELSE Mins(MIN_TRANSFER_MINS)
    IN  wait_mins < threshold

\* ------------------------------------------------------------------ heapq
\* _SearchNode is ordered by cost alone (the other fields are compare=False).
NodeLt(a, b) == a.cost < b.cost

_SearchNode(cost, atco_code, arrival_time, prev_atco, edge) ==
    [cost |-> cost, atco_code |-> atco_code, arrival_time |-> arrival_time,
     prev_atco |-> prev_atco, edge |-> edge]

NoNode == _SearchNode(0, "", 0, "", NoEdge)

\* heapq._siftdown; positions are 0-based as in the library.
RECURSIVE SiftDownLoop(_, _, _, _)
SiftDownLoop(heap, startpos, pos, newitem) ==
    IF pos > startpos
    THEN LET parentpos == (pos - 1) \div 2
             parent == heap[parentpos + 1]
         IN  IF NodeLt(newitem, parent)
             THEN SiftDownLoop([heap EXCEPT ![pos + 1] = parent],
                               startpos, parentpos, newitem)
             ELSE [heap EXCEPT ![pos + 1] = newitem]
    ELSE [heap EXCEPT ![pos + 1] = newitem]

_siftdown(heap, startpos, pos) ==
    SiftDownLoop(heap, startpos, pos, heap[pos + 1])

\* heapq._siftup: the smaller child bubbles up to a leaf, then _siftdown.
RECURSIVE SiftUpLoop(_, _, _)
SiftUpLoop(heap, pos, newitem) ==
    LET endpos == Len(heap)
        childpos == 2 * pos + 1
        rightpos == childpos + 1
        c == IF rightpos < endpos
                /\ ~NodeLt(heap[childpos + 1], heap[rightpos + 1])
             THEN rightpos ELSE childpos
    IN  IF childpos < endpos
        THEN SiftUpLoop([heap EXCEPT ![pos + 1] = heap[c + 1]], c, newitem)
        ELSE <<[heap EXCEPT ![pos + 1] = newitem], pos>>

_siftup(heap, pos) ==
    LET r == SiftUpLoop(heap, pos, heap[pos + 1])
    IN  _siftdown(r[1], pos, r[2])

\* heapq.heappush.
heappush(heap, item) ==
    _siftdown(Append(heap, item), 0, Len(heap))

\* heapq.heappop: the item returned and the heap left.
heappop(heap) ==
    LET lastelt == heap[Len(heap)]
        rest == SubSeq(heap, 1, Len(heap) - 1)
    IN  IF rest # <<>>
        THEN [item |-> rest[1],
              heap |-> _siftup([rest EXCEPT ![1] = lastelt], 0)]
        ELSE [item |-> lastelt, heap |-> rest]

\* ---------------------------------------------------------- reconstruction
JourneyLeg(from_stop_atco, to_stop_atco, dep, arr, mode, route_id) ==
    [from_stop_atco |-> from_stop_atco, to_stop_atco |-> to_stop_atco,
     departure_time |-> dep, arrival_time |-> arr, mode |-> mode,
     route_id |-> route_id]

\* _reconstruct, the while loop: (edge, arrival at its from_stop) pairs from
\* the destination back to the origin.
RECURSIVE PathWithoutFirstEdge(_, _)
PathWithoutFirstEdge(node, preds) ==
    IF node = <<>> \/ node[1].edge.kind = "none" THEN <<>>
    ELSE LET n == node[1]
             prev_node == IF n.prev_atco # "" /\ n.prev_atco \in DOMAIN preds
                          THEN <<preds[n.prev_atco]>> ELSE <<>>
             from_arrival == IF n.edge.from_stop \in DOMAIN preds
                             THEN preds[n.edge.from_stop].arrival_time
                             ELSE n.arrival_time
         IN  IF prev_node = <<>> \/ prev_node[1].edge.kind = "none"
             THEN <<>>
             ELSE <<<<n.edge, from_arrival>>>>
                    \o PathWithoutFirstEdge(prev_node, preds)
RECURSIVE path_reversed(_, _)
path_reversed(node, preds) ==
    IF node = <<>> \/ node[1].edge.kind = "none" THEN <<>>
    ELSE LET n == node[1]
             prev_node == IF n.prev_atco # "" /\ n.prev_atco \in DOMAIN preds
                          THEN <<preds[n.prev_atco]>> ELSE <<>>
             from_arrival == IF n.edge.from_stop \in DOMAIN preds
                             THEN preds[n.edge.from_stop].arrival_time
                             ELSE n.arrival_time
         IN  <<<<n.edge, from_arrival>>>> \o path_reversed(prev_node, preds)

Reverse(s) == [i \in 1..Len(s) |-> s[Len(s) + 1 - i]]

\* _reconstruct, the test that extends the running leg.
NeverMerges(legs, edge) == FALSE
MergesWithLast(legs, edge) ==
    /\ legs # <<>>
    /\ legs[Len(legs)].route_id = edge.route_id
    /\ legs[Len(legs)].to_stop_atco = edge.from_stop

\* _reconstruct, lines 338-342: the running leg extended by one more edge.
ExtendLegKeepingArrival(leg, edge) ==
    [leg EXCEPT !.to_stop_atco = edge.to_stop]
ExtendLeg(leg, edge) ==
    [leg EXCEPT !.to_stop_atco = edge.to_stop,
                !.arrival_time = edge.arrival_time]

\* _reconstruct, the for loop folding edges into legs.
RECURSIVE FoldLegs(_, _)
FoldLegs(path, legs) ==
    IF path = <<>> THEN legs
    ELSE LET edge == Head(path)[1]
             from_arrival_time == Head(path)[2]
             next ==
                IF edge.kind = "transit"
                THEN IF MergesWithLast(legs, edge)
                     THEN [legs EXCEPT
                            ![Len(legs)] = ExtendLeg(legs[Len(legs)], edge)]
                     ELSE Append(legs,
                            JourneyLeg(edge.from_stop, edge.to_stop,
                                       edge.departure_time, edge.arrival_time,
                                       edge.transport_mode, edge.route_id))
                ELSE Append(legs,
                        JourneyLeg(edge.from_stop, edge.to_stop,
                                   from_arrival_time,
                                   _add_minutes(from_arrival_time,
                                                edge.walk_time_mins),
                                   "walk", NoRoute))
         IN  FoldLegs(Tail(path), next)

\* _reconstruct, line 381: the transfers of a list of legs.
LegsMinusOne(legs) == Max(0, Len(legs) - 1)
num_transfers(legs) ==
    Max(0, Cardinality({i \in 1..Len(legs) : legs[i].mode # "walk"}) - 1)

\* router._reconstruct.
_reconstruct(dest_node, preds) ==
    LET legs == FoldLegs(Reverse(path_reversed(<<dest_node>>, preds)), <<>>)
        total_duration ==
            IF legs # <<>>
            THEN _minutes_between(legs[1].departure_time,
                                  legs[Len(legs)].arrival_time)
            ELSE 0
    IN  [legs |-> legs,
         total_cost |-> dest_node.cost,
         total_duration_mins |-> total_duration,
         num_transfers |-> num_transfers(legs)]

\* ----------------------------------------------------------------- search
\* dict.get(key, math.inf) compared with a cost.
NotMoreThanBest(new_cost, bc, stop) ==
    stop \notin DOMAIN bc \/ new_cost <= bc[stop]
LessThanBest(new_cost, bc, stop) ==
    stop \notin DOMAIN bc \/ new_cost < bc[stop]

MoreThanBest(cost, bc, stop) ==
    stop \in DOMAIN bc /\ cost > bc[stop]

Put(f, k, v) == [x \in DOMAIN f \cup {k} |-> IF x = k THEN v ELSE f[x]]

\* _dijkstra_search, the relaxation of one candidate entry: st holds the
\* function's pq, best_cost and predecessors, and the history of pushes.
RelaxFirstPredecessor(st, node) ==
    IF LessThanBest(node.cost, st.best_cost, node.atco_code)
    THEN [pq |-> heappush(st.pq, node),
          push_log |-> Append(st.push_log, node),
          best_cost |-> Put(st.best_cost, node.atco_code, node.cost),
          predecessors |->
            IF node.atco_code \in DOMAIN st.predecessors
            THEN st.predecessors
            ELSE Put(st.predecessors, node.atco_code, node)]
    ELSE st
Relax(st, node) ==
    IF LessThanBest(node.cost, st.best_cost, node.atco_code)
    THEN [pq |-> heappush(st.pq, node),
          push_log |-> Append(st.push_log, node),
          best_cost |-> Put(st.best_cost, node.atco_code, node.cost),
          predecessors |-> Put(st.predecessors, node.atco_code, node)]
    ELSE st

\* _dijkstra_search, the first-edge exclusion test.
ExcludedFirst(cur, edge) ==
    /\ cur.atco_code = origin_atco
    /\ <<edge.from_stop, edge.to_stop, edge.route_id>>
            \in excluded_first_edges

\* _dijkstra_search, the fragile connection check of a transit edge.
FragileSkipAnyRoute(cur, edge, current_stop) ==
    /\ cur.edge.kind # "none"
    /\ is_fragile_connection(
            _minutes_between(cur.arrival_time, edge.departure_time),
            current_stop)
FragileSkip(cur, edge, current_stop) ==
    /\ cur.edge.kind # "none"
    /\ ~(cur.edge.kind = "transit" /\ cur.edge.route_id = edge.route_id)
    /\ is_fragile_connection(
            _minutes_between(cur.arrival_time, edge.departure_time),
            current_stop)

\* _dijkstra_search, the body of the transit-edge loop.
RECURSIVE ExpandTransit(_, _, _, _)
ExpandTransit(edges, cur, current_stop, st) ==
    IF edges = <<>> THEN st
    ELSE LET edge == Head(edges)
             cost == transit_edge_cost(edge, cur.arrival_time, 10, 0, 0)
             skip == \/ ExcludedFirst(cur, edge)
                     \/ cost = <<>>
                     \/ FragileSkip(cur, edge, current_stop)
             node == _SearchNode(cur.cost + cost[1], edge.to_stop,
                                 edge.arrival_time, cur.atco_code, edge)
         IN  ExpandTransit(Tail(edges), cur, current_stop,
                           IF skip THEN st ELSE Relax(st, node))

\* _dijkstra_search, the body of the walking-edge loop.
RECURSIVE ExpandWalking(_, _, _)
ExpandWalking(wedges, cur, st) ==
    IF wedges = <<>> THEN st
    ELSE LET wedge == Head(wedges)
             node == _SearchNode(cur.cost + walking_edge_cost(wedge),
                                 wedge.to_stop,
                                 _add_minutes(cur.arrival_time,
                                              wedge.walk_time_mins),
                                 cur.atco_code, wedge)
         IN  ExpandWalking(Tail(wedges), cur,
                           IF ExcludedFirst(cur, wedge) THEN st
                           ELSE Relax(st, node))

\* _dijkstra_search, lines 187-206: the state a search starts in.
StartSearch ==
    LET start_node == _SearchNode(0, origin_atco', departure_time', "", NoEdge)
    IN  /\ pq' = heappush(<<>>, start_node)
        /\ push_log' = <<start_node>>
        /\ best_cost' = (origin_atco' :> 0)
        /\ predecessors' = (origin_atco' :> start_node)
        /\ expansions' = 0
        /\ current' = NoNode

\* ------------------------------------------------------------ input sets
Stops == {"A", "B", "C"}
UnknownStop == "X"
Routes == {1, 2}
RouteMode(r) == IF r = 1 THEN "bus" ELSE "rail"
HubScores == {0, 8}
Hops == 5..MaxHopMins
FirstStart == Clock(23, 40, 0)
Starts == {(FirstStart + 600 * i) % SECONDS_PER_DAY : i \in 0..(NumStarts - 1)}
DwellSeconds == 60
WalkMins == Mins(10)
Paths == {<<"A", "B", "C">>, <<"A", "B">>, <<"B", "C">>}
QueryCodes == Stops \cup {UnknownStop}

NoTrip == [path |-> <<>>, start |-> 0, hop |-> 0]
TripOptions ==
    {NoTrip} \cup [path : Paths, start : Starts, hop : Hops]

\* The timetable rows of one trip: no arrival at the first stop, no
\* departure at the last, a dwell of DwellSeconds in between.
TripEntries(route_id, trip_id, trip) ==
    LET n == Len(trip.path)
        dep(i) == (trip.start + (i - 1) * (trip.hop * 60 + DwellSeconds))
                    % SECONDS_PER_DAY
        arr(i) == (dep(i - 1) + trip.hop * 60) % SECONDS_PER_DAY
    IN  [i \in 1..n |->
            [route_id |-> route_id,
             stop_atco_code |-> trip.path[i],
             stop_sequence |-> i,
             arrival_time |-> IF i = 1 THEN <<>> ELSE <<arr(i)>>,
             departure_time |-> IF i = n THEN <<>> ELSE <<dep(i)>>,
             trip_id |-> trip_id]]

\* A snapshot with nothing in it: build_graph of five empty sequences.
EmptySnapshot ==
    [stops |-> <<>>, routes |-> <<>>, timetable_entries |-> <<>>,
     walking_connections |-> <<>>, disrupted_route_ids |-> <<>>]

\* A snapshot whose timetable names a stop code ("C") that is missing from
\* its stop list: build_graph does not validate stop codes.
DanglingSnapshot ==
    [stops |-> <<[atco_code |-> "A", hub_score |-> 0],
                 [atco_code |-> "B", hub_score |-> 0]>>,
     routes |-> <<[route_id |-> 1, transport_mode |-> RouteMode(1)]>>,
     timetable_entries |->
        TripEntries(1, "t1",
                    [path |-> <<"A", "B", "C">>, start |-> FirstStart,
                     hop |-> 5]),
     walking_connections |-> <<>>,
     disrupted_route_ids |-> <<>>]

\* The three stops and the two routes of the snapshots below.
ThreeStops(hubB) ==
    <<[atco_code |-> "A", hub_score |-> 0],
      [atco_code |-> "B", hub_score |-> hubB],
      [atco_code |-> "C", hub_score |-> 0]>>
TwoRoutes ==
    <<[route_id |-> 1, transport_mode |-> RouteMode(1)],
      [route_id |-> 2, transport_mode |-> RouteMode(2)]>>

\* A three-minute hop into a hub: travel time less the hub bonus of four
\* minutes is below zero, so the edge cost is clamped.
ShortHopSnapshot ==
    [stops |-> ThreeStops(8),
     routes |-> TwoRoutes,
     timetable_entries |->
        TripEntries(1, "t1",
                    [path |-> <<"A", "B", "C">>, start |-> FirstStart,
                     hop |-> 3]),
     walking_connections |-> <<>>,
     disrupted_route_ids |-> <<>>]

\* Two services leave A at the same minute and cost the same, to B and to
\* C, and B is also a walk of 60.5 seconds from A.
TieSnapshot ==
    [stops |-> ThreeStops(0),
     routes |-> TwoRoutes,
     timetable_entries |->
        TripEntries(1, "t1",
                    [path |-> <<"A", "B">>, start |-> FirstStart, hop |-> 5])
        \o TripEntries(2, "t2",
                    [path |-> <<"A", "C">>, start |-> FirstStart, hop |-> 5]),
     walking_connections |-> <<<<"A", "B", Mins(1) + 1, 80>>>>,
     disrupted_route_ids |-> <<>>]

\* Two vehicles of one route: trip t1 runs A to B, trip t1b leaves B for C
\* one minute after t1 arrives there.
SameRouteSnapshot ==
    [stops |-> ThreeStops(0),
     routes |-> TwoRoutes,
     timetable_entries |->
        TripEntries(1, "t1",
                    [path |-> <<"A", "B">>, start |-> FirstStart, hop |-> 5])
        \o TripEntries(1, "t1b",
                    [path |-> <<"B", "C">>,
                     start |-> FirstStart + 5 * 60 + DwellSeconds,
                     hop |-> 5]),
     walking_connections |-> <<>>,
     disrupted_route_ids |-> <<>>]

SpecialSnapshots ==
    {EmptySnapshot, DanglingSnapshot, ShortHopSnapshot, TieSnapshot,
     SameRouteSnapshot}

Snapshots ==
    SpecialSnapshots \cup
    {[stops |-> <<[atco_code |-> "A", hub_score |-> 0],
                  [atco_code |-> "B", hub_score |-> h],
                  [atco_code |-> "C", hub_score |-> 0]>>,
      routes |-> <<[route_id |-> 1, transport_mode |-> RouteMode(1)],
                   [route_id |-> 2, transport_mode |-> RouteMode(2)]>>,
      timetable_entries |->
            TripEntries(1, "t1", t1) \o TripEntries(2, "t2", t2),
      walking_connections |-> w,
      disrupted_route_ids |-> <<>>] :
        h \in HubScores, t1 \in TripOptions, t2 \in TripOptions,
        w \in {<<>>, <<<<"B", "C", WalkMins, 800>>>>}}

\* ------------------------------------------------------------------ Init
Init ==
    /\ snapshot \in Snapshots
    /\ LET g == build_graph(snapshot.stops, snapshot.routes,
                            snapshot.timetable_entries,
                            snapshot.walking_connections,
                            snapshot.disrupted_route_ids)
       IN  /\ _stops = g.stops
           /\ _routes = g.routes
           /\ _transit_edges = g.transit_edges
           /\ _walking_edges = g.walking_edges
           /\ _disrupted_route_ids = g.disrupted
    /\ last_mutator = <<>>
    /\ pc = "idle"
    /\ origin_atco = ""
    /\ destination_atco = ""
    /\ departure_time = 0
    /\ max_results = 0
    /\ results = <<>>
    /\ excluded_first_edges = {}
    /\ searches = 0
    /\ pq = <<>>
    /\ best_cost = <<>>
    /\ predecessors = <<>>
    /\ expansions = 0
    /\ current = NoNode
    /\ push_log = <<>>
    /\ plan = <<>>
    /\ call = <<>>
    /\ suspended = <<>>
    /\ solo = <<>>

\* ---------------------------------------------------------------- actions
\* TransportGraph.mark_disrupted, called before a search starts.
MarkDisrupted(route_id) ==
    /\ pc = "idle"
    /\ _disrupted_route_ids' = _disrupted_route_ids \cup {route_id}
    /\ last_mutator' = Put(last_mutator, route_id, "mark_disrupted")
    /\ UNCHANGED <<_stops, _routes, _transit_edges, _walking_edges, snapshot,
                   envVars, pc, queryVars, loopVars, searchVars, plan>>

\* TransportGraph.clear_disruption.
ClearDisruption(route_id) ==
    /\ pc = "idle"
    /\ _disrupted_route_ids' = _disrupted_route_ids \ {route_id}
    /\ last_mutator' = Put(last_mutator, route_id, "clear_disruption")
    /\ UNCHANGED <<_stops, _routes, _transit_edges, _walking_edges, snapshot,
                   envVars, pc, queryVars, loopVars, searchVars, plan>>

\* find_journeys is called: lines 156-163, up to the first search's start.
FindJourneys(origin, destination, depart, k) ==
    /\ pc = "idle"
    /\ origin_atco' = origin
    /\ destination_atco' = destination
    /\ departure_time' = depart
    /\ max_results' = k
    /\ results' = <<>>
    /\ excluded_first_edges' = {}
    /\ searches' = 1
    /\ StartSearch
    /\ plan' = <<>>
    /\ pc' = "search"
    /\ UNCHANGED <<graphVars, inputVars, envVars>>

\* One iteration of the while loop that pops the destination: reconstruct
\* and return the plan.
PopDestination ==
    /\ pc = "search"
    /\ pq # <<>> /\ expansions < MAX_EXPANSIONS
    /\ LET popped == heappop(pq)
       IN  /\ popped.item.atco_code = destination_atco
           /\ pq' = popped.heap
           /\ current' = popped.item
           /\ plan' = <<_reconstruct(popped.item, predecessors)>>
    /\ expansions' = expansions + 1
    /\ pc' = "returned"
    /\ UNCHANGED <<graphVars, inputVars, envVars, queryVars, loopVars, best_cost,
                   predecessors, push_log>>

\* One iteration that pops an entry a cheaper entry has superseded.
PopStale ==
    /\ pc = "search"
    /\ pq # <<>> /\ expansions < MAX_EXPANSIONS
    /\ LET popped == heappop(pq)
       IN  /\ popped.item.atco_code # destination_atco
           /\ MoreThanBest(popped.item.cost, best_cost, popped.item.atco_code)
           /\ pq' = popped.heap
           /\ current' = popped.item
    /\ expansions' = expansions + 1
    /\ UNCHANGED <<graphVars, inputVars, envVars, pc, queryVars, loopVars, best_cost,
                   predecessors, push_log, plan>>

\* One iteration that pops a stop the graph does not know.
PopUnknownStop ==
    /\ pc = "search"
    /\ pq # <<>> /\ expansions < MAX_EXPANSIONS
    /\ LET popped == heappop(pq)
       IN  /\ popped.item.atco_code # destination_atco
           /\ ~MoreThanBest(popped.item.cost, best_cost, popped.item.atco_code)
           /\ get_stop(popped.item.atco_code) = <<>>
           /\ pq' = popped.heap
           /\ current' = popped.item
    /\ expansions' = expansions + 1
    /\ UNCHANGED <<graphVars, inputVars, envVars, pc, queryVars, loopVars, best_cost,
                   predecessors, push_log, plan>>

\* One iteration that expands the popped entry: every transit edge, then
\* every walking edge.
Expand ==
    /\ pc = "search"
    /\ pq # <<>> /\ expansions < MAX_EXPANSIONS
    /\ LET popped == heappop(pq)
           cur == popped.item
           current_stop == get_stop(cur.atco_code)
       IN  /\ cur.atco_code # destination_atco
           /\ ~MoreThanBest(cur.cost, best_cost, cur.atco_code)
           /\ current_stop # <<>>
           /\ LET st0 == [pq |-> popped.heap, best_cost |-> best_cost,
                          predecessors |-> predecessors,
                          push_log |-> push_log]
                  st1 == ExpandTransit(
                            get_outgoing_transit_edges(cur.atco_code,
                                                       cur.arrival_time),
                            cur, current_stop[1], st0)
                  st2 == ExpandWalking(get_walking_edges(cur.atco_code),
                                       cur, st1)
              IN  /\ pq' = st2.pq
                  /\ best_cost' = st2.best_cost
                  /\ predecessors' = st2.predecessors
                  /\ push_log' = st2.push_log
           /\ current' = cur
    /\ expansions' = expansions + 1
    /\ UNCHANGED <<graphVars, inputVars, envVars, pc, queryVars, loopVars, plan>>

\* The while condition fails: the destination was not reached.
SearchExhausted ==
    /\ pc = "search"
    /\ ~(pq # <<>> /\ expansions < MAX_EXPANSIONS)
    /\ plan' = <<>>
    /\ pc' = "returned"
    /\ UNCHANGED <<graphVars, inputVars, envVars, queryVars, loopVars, searchVars>>

\* find_journeys, lines 164-165: the search returned None.
BreakOnNone ==
    /\ pc = "returned"
    /\ plan = <<>>
    /\ pc' = "done"
    /\ UNCHANGED <<graphVars, inputVars, envVars, queryVars, loopVars, searchVars, plan>>

\* find_journeys, line 168: plan.legs[0] of a plan without legs.
RaiseIndexError ==
    /\ pc = "returned"
    /\ plan # <<>>
    /\ plan[1].legs = <<>>
    /\ results' = Append(results, plan[1])
    /\ pc' = "raised"
    /\ UNCHANGED <<graphVars, inputVars, envVars, queryVars, excluded_first_edges,
                   searches, searchVars, plan>>

\* find_journeys, lines 166-171: the key of the plan's first leg.
FirstLegKey(p) ==
    <<p.legs[1].from_stop_atco, p.legs[1].to_stop_atco, p.legs[1].route_id>>

\* find_journeys, lines 159-171: record the plan and search again.
OneTooMany(k) == searches <= k
MoreIterations(k) == searches < k
RecordAndSearchAgain ==
    /\ pc = "returned"
    /\ plan # <<>>
    /\ plan[1].legs # <<>>
    /\ MoreIterations(max_results)
    /\ results' = Append(results, plan[1])
    /\ excluded_first_edges' = excluded_first_edges \cup {FirstLegKey(plan[1])}
    /\ searches' = searches + 1
    /\ UNCHANGED queryVars
    /\ StartSearch
    /\ pc' = "search"
    /\ UNCHANGED <<graphVars, inputVars, envVars, plan>>

\* find_journeys, lines 166-173: record the last plan and return.
RecordAndReturn ==
    /\ pc = "returned"
    /\ plan # <<>>
    /\ plan[1].legs # <<>>
    /\ ~MoreIterations(max_results)
    /\ results' = Append(results, plan[1])
    /\ excluded_first_edges' = excluded_first_edges \cup {FirstLegKey(plan[1])}
    /\ pc' = "done"
    /\ UNCHANGED <<graphVars, inputVars, envVars, queryVars, searches, searchVars, plan>>

Next ==
    \/ \E r \in Routes : MarkDisrupted(r)
    \/ \E r \in Routes : ClearDisruption(r)
    \/ \E o \in QueryCodes, d \in QueryCodes, k \in 1..MaxResultsBound :
            FindJourneys(o, d, FirstStart, k)
    \/ PopDestination
    \/ PopStale
    \/ PopUnknownStop
    \/ Expand
    \/ SearchExhausted
    \/ BreakOnNone
    \/ RaiseIndexError
    \/ RecordAndSearchAgain
    \/ RecordAndReturn

Spec == Init /\ [][Next]_vars

\* One pass of the while loop of _dijkstra_search, or its exit.
SearchStep ==
    \/ PopDestination
    \/ PopStale
    \/ PopUnknownStop
    \/ Expand
    \/ SearchExhausted

\* The snapshots without a hub whose trips all start at FirstStart and take
\* five minutes a hop, route 2 running from A to C or not at all.
FairSnapshots ==
    {EmptySnapshot, DanglingSnapshot} \cup
    {[stops |-> <<[atco_code |-> "A", hub_score |-> 0],
                  [atco_code |-> "B", hub_score |-> 0],
                  [atco_code |-> "C", hub_score |-> 0]>>,
      routes |-> <<[route_id |-> 1, transport_mode |-> RouteMode(1)],
                   [route_id |-> 2, transport_mode |-> RouteMode(2)]>>,
      timetable_entries |->
            TripEntries(1, "t1", t1) \o TripEntries(2, "t2", t2),
      walking_connections |-> w,
      disrupted_route_ids |-> <<>>] :
        t1 \in {NoTrip} \cup [path : Paths, start : {FirstStart}, hop : {5}],
        t2 \in {NoTrip,
                [path |-> <<"A", "B", "C">>, start |-> FirstStart, hop |-> 5]},
        w \in {<<>>, <<<<"B", "C", WalkMins, 800>>>>}}

FairInit == Init /\ snapshot \in FairSnapshots

\* The search runs on its caller's thread and waits for nothing: once
\* called, the loop goes on until the function returns.
FairSpec == FairInit /\ [][Next]_vars /\ WF_vars(SearchStep)

\* ------------------------------------------------- the graph on its own
\* build_graph and the graph's mutators and queries, without a search, over
\* snapshots that have seconds in their clock times, departures after
\* midnight, rows without a trip_id, routes disrupted from the start and
\* several walking connections.
NoTripId == "None"
GraphClocks == {Clock(23, 50, 0), Clock(23, 50, 30), Clock(0, 5, 0)}
GraphPaths == {<<"A", "B">>, <<"A", "B", "C">>}
GraphTripOptions ==
    {NoTrip} \cup [path : GraphPaths, start : GraphClocks, hop : {5}]
WalkingOptions ==
    {<<>>,
     <<<<"B", "C", WalkMins, 800>>>>,
     <<<<"B", "C", WalkMins, 800>>, <<"C", "A", Mins(3) + 1, 250>>>>}
DisruptedOptions == {<<>>, <<1>>, <<2, 2>>}

GraphSnapshots ==
    {[stops |-> <<[atco_code |-> "A", hub_score |-> 0],
                  [atco_code |-> "B", hub_score |-> 0],
                  [atco_code |-> "C", hub_score |-> 0]>>,
      routes |-> <<[route_id |-> 1, transport_mode |-> RouteMode(1)],
                   [route_id |-> 2, transport_mode |-> RouteMode(2)]>>,
      timetable_entries |->
            TripEntries(1, id1, t1) \o TripEntries(r2, id2, t2),
      walking_connections |-> w,
      disrupted_route_ids |-> d] :
        t1 \in GraphTripOptions, t2 \in GraphTripOptions, r2 \in Routes,
        id1 \in {"t1", NoTripId}, id2 \in {"t2", NoTripId},
        w \in WalkingOptions, d \in DisruptedOptions}

\* The state right after build_graph(snap) returned.
Built(snap) ==
    LET g == build_graph(snap.stops, snap.routes, snap.timetable_entries,
                         snap.walking_connections, snap.disrupted_route_ids)
    IN  /\ snapshot' = snap
        /\ _stops' = g.stops
        /\ _routes' = g.routes
        /\ _transit_edges' = g.transit_edges
        /\ _walking_edges' = g.walking_edges
        /\ _disrupted_route_ids' = g.disrupted
        /\ last_mutator' = <<>>

GraphInit ==
    /\ snapshot \in GraphSnapshots
    /\ LET g == build_graph(snapshot.stops, snapshot.routes,
                            snapshot.timetable_entries,
                            snapshot.walking_connections,
                            snapshot.disrupted_route_ids)
       IN  /\ _stops = g.stops
           /\ _routes = g.routes
           /\ _transit_edges = g.transit_edges
           /\ _walking_edges = g.walking_edges
           /\ _disrupted_route_ids = g.disrupted
    /\ last_mutator = <<>>
    /\ pc = "idle"
    /\ origin_atco = ""
    /\ destination_atco = ""
    /\ departure_time = 0
    /\ max_results = 0
    /\ results = <<>>
    /\ excluded_first_edges = {}
    /\ searches = 0
    /\ pq = <<>>
    /\ best_cost = <<>>
    /\ predecessors = <<>>
    /\ expansions = 0
    /\ current = NoNode
    /\ push_log = <<>>
    /\ plan = <<>>
    /\ call = <<>>
    /\ suspended = <<>>
    /\ solo = <<>>

\* build_graph is called again on the same snapshot with its timetable
\* rows in the opposite order.
BuildGraphReversed ==
    /\ pc = "idle"
    /\ Built([snapshot EXCEPT
                !.timetable_entries = Reverse(snapshot.timetable_entries)])
    /\ UNCHANGED <<envVars, pc, queryVars, loopVars, searchVars, plan>>

GraphNext ==
    \/ \E r \in Routes : MarkDisrupted(r)
    \/ \E r \in Routes : ClearDisruption(r)
    \/ BuildGraphReversed

GraphSpec == GraphInit /\ [][GraphNext]_vars

\* ------------------------------------------- the cost model on its own
\* The functions of cost_function.py called with arguments of the caller's
\* choice: clock times at both ends of the day and on a half minute, waits
\* on either side of a threshold, hub scores on either side of 0.7.
CostClocks ==
    {Clock(0, 0, 0), Clock(0, 0, 30), Clock(8, 0, 0), Clock(12, 0, 0),
     Clock(23, 59, 0), Clock(23, 59, 59)}
CostWaits ==
    {0, Mins(2), Mins(4) - 1, Mins(4), Mins(4) + 1, Mins(5) - 1, Mins(5),
     Mins(5) + 1, Mins(60)}
CostHubScores == {0, 7, 8, 10}
CostDelayRatios == {0, 10}
CostEdges ==
    {TransitEdge("A", t, 1, dep, arr, RouteMode(1)) :
        t \in {"B", "C"}, dep \in CostClocks, arr \in CostClocks}

CostInit == Init /\ snapshot \in {ShortHopSnapshot, DanglingSnapshot}

\* What every call of a cost-model function leaves alone.
CallFrame ==
    UNCHANGED <<graphVars, inputVars, suspended, solo, pc, queryVars,
                loopVars, searchVars, plan>>

CallIsFragileConnection(wait_mins, transfer_stop) ==
    /\ call' = <<[fn |-> "is_fragile_connection",
                  args |-> <<wait_mins, transfer_stop>>,
                  result |-> is_fragile_connection(wait_mins, transfer_stop)]>>
    /\ CallFrame

CallMinutesBetween(t_from, t_to) ==
    /\ call' = <<[fn |-> "_minutes_between",
                  args |-> <<t_from, t_to>>,
                  result |-> _minutes_between(t_from, t_to)]>>
    /\ CallFrame

CallTransitEdgeCost(edge, current_time, stop_delay_ratio) ==
    /\ call' = <<[fn |-> "transit_edge_cost",
                  args |-> <<edge, current_time, stop_delay_ratio>>,
                  result |-> transit_edge_cost(edge, current_time, 10,
                                               stop_delay_ratio, 0)]>>
    /\ CallFrame

CostNext ==
    \/ \E w \in CostWaits, h \in CostHubScores :
            CallIsFragileConnection(w, [atco_code |-> "B", hub_score |-> h])
    \/ \E t_from \in CostClocks, t_to \in CostClocks :
            CallMinutesBetween(t_from, t_to)
    \/ \E e \in CostEdges, t \in CostClocks, d \in CostDelayRatios :
            CallTransitEdgeCost(e, t, d)

CostSpec == CostInit /\ [][CostNext]_vars

\* ------------------------------------------------ two callers, one graph
\* find_journeys called from two threads on one finalised graph.  The call
\* that is running has its locals in the variables of the search; the locals
\* of the other call are in suspended.  A thread switch exchanges the two.
Locals ==
    [pc |-> pc,
     origin_atco |-> origin_atco,
     destination_atco |-> destination_atco,
     departure_time |-> departure_time,
     max_results |-> max_results,
     results |-> results,
     excluded_first_edges |-> excluded_first_edges,
     searches |-> searches,
     pq |-> pq,
     best_cost |-> best_cost,
     predecessors |-> predecessors,
     expansions |-> expansions,
     current |-> current,
     push_log |-> push_log,
     plan |-> plan]

\* The locals of a thread that has not called find_journeys yet.
IdleLocals ==
    [pc |-> "idle",
     origin_atco |-> "",
     destination_atco |-> "",
     departure_time |-> 0,
     max_results |-> 0,
     results |-> <<>>,
     excluded_first_edges |-> {},
     searches |-> 0,
     pq |-> <<>>,
     best_cost |-> <<>>,
     predecessors |-> <<>>,
     expansions |-> 0,
     current |-> NoNode,
     push_log |-> <<>>,
     plan |-> <<>>]

\* find_journeys, line 157: the exclusion set is a local of the call, so a
\* call that resumes finds the set it left.
SharedExclusions(frame) == excluded_first_edges
LocalExclusions(frame) == frame.excluded_first_edges

\* The thread whose locals are frame goes on running.
Resume(frame) ==
    /\ pc' = frame.pc
    /\ origin_atco' = frame.origin_atco
    /\ destination_atco' = frame.destination_atco
    /\ departure_time' = frame.departure_time
    /\ max_results' = frame.max_results
    /\ results' = frame.results
    /\ excluded_first_edges' = LocalExclusions(frame)
    /\ searches' = frame.searches
    /\ pq' = frame.pq
    /\ best_cost' = frame.best_cost
    /\ predecessors' = frame.predecessors
    /\ expansions' = frame.expansions
    /\ current' = frame.current
    /\ push_log' = frame.push_log
    /\ plan' = frame.plan

\* The query of the running call.
Query == <<origin_atco, destination_atco, departure_time, max_results>>

\* A call made with nothing else running has ended; what it returned is
\* kept, and two threads are ready to call find_journeys on the same graph.
StartThreads ==
    /\ pc \in {"done", "raised"}
    /\ suspended = <<>>
    /\ solo = <<>>
    /\ solo' = <<[query |-> Query, pc |-> pc, results |-> results]>>
    /\ suspended' = <<IdleLocals>>
    /\ Resume(IdleLocals)
    /\ UNCHANGED <<graphVars, inputVars, call>>

\* The interpreter switches threads between two steps of a call.
Switch ==
    /\ suspended # <<>>
    /\ suspended' = <<Locals>>
    /\ Resume(suspended[1])
    /\ UNCHANGED <<graphVars, inputVars, call, solo>>

ConcSnapshots == {TieSnapshot, DanglingSnapshot}
ConcDestinations == {"A", "B", "C", UnknownStop}

ConcInit == Init /\ snapshot \in ConcSnapshots

\* No mark_disrupted or clear_disruption while the threads run.
ConcNext ==
    \/ \E d \in ConcDestinations, k \in 1..MaxResultsBound :
            FindJourneys("A", d, FirstStart, k)
    \/ PopDestination
    \/ PopStale
    \/ PopUnknownStop
    \/ Expand
    \/ SearchExhausted
    \/ BreakOnNone
    \/ RaiseIndexError
    \/ RecordAndSearchAgain
    \/ RecordAndReturn
    \/ StartThreads
    \/ Switch

ConcSpec == ConcInit /\ [][ConcNext]_vars

\* ================================================================ claims
\* Every plan a search has produced so far in this call of find_journeys.
Plans ==
    {results[i] : i \in 1..Len(results)}
        \cup (IF plan = <<>> THEN {} ELSE {plan[1]})

\* The edge path the last search's plan was reconstructed from.
EdgePath == Reverse(path_reversed(<<current>>, predecessors))

\* The edges of the graph that leave a stop.
EdgesFrom(stop) ==
    (IF stop \in DOMAIN _transit_edges THEN _transit_edges[stop] ELSE <<>>)
        \o get_walking_edges(stop)

\* Feasibility of taking edge e at stop having arrived there at clock on
\* incoming edge inEdge (NoEdge at the origin), stated from the rules of the
\* search: same-day departure, disruption set, first-edge exclusions,
\* fragile transfers.
Feasible(stop, clock, inEdge, e) ==
    /\ stop \in DOMAIN _stops
    /\ ~(stop = origin_atco
         /\ <<e.from_stop, e.to_stop, e.route_id>> \in excluded_first_edges)
    /\ e.kind = "transit" =>
        /\ e.route_id \notin _disrupted_route_ids
        /\ e.departure_time >= clock
        /\ \/ inEdge.kind = "none"
           \/ inEdge.kind = "transit" /\ inEdge.route_id = e.route_id
           \/ (e.departure_time - clock) * 2 >=
                (IF _stops[stop].hub_score > 7 THEN Mins(4) ELSE Mins(5))

\* The cost of edge e taken at clock, and the clock it arrives at.
EdgeCost(clock, e) ==
    IF e.kind = "transit"
    THEN transit_edge_cost(e, clock, 10, 0, 0)[1]
    ELSE walking_edge_cost(e)

EdgeArrival(clock, e) ==
    IF e.kind = "transit" THEN e.arrival_time
    ELSE _add_minutes(clock, e.walk_time_mins)

\* The summed edge costs of the feasible journeys of at most fuel edges
\* from (stop, clock, inEdge) to the destination.
RECURSIVE JourneyCosts(_, _, _, _)
JourneyCosts(stop, clock, inEdge, fuel) ==
    (IF stop = destination_atco /\ inEdge.kind # "none" THEN {0} ELSE {})
    \cup
    (IF fuel = 0 THEN {}
     ELSE LET es == EdgesFrom(stop)
          IN  UNION {
                IF Feasible(stop, clock, inEdge, es[i])
                THEN {EdgeCost(clock, es[i]) + c :
                        c \in JourneyCosts(es[i].to_stop,
                                           EdgeArrival(clock, es[i]),
                                           es[i], fuel - 1)}
                ELSE {} : i \in 1..Len(es)})

FeasibleCosts ==
    JourneyCosts(origin_atco, departure_time, NoEdge, MaxJourneyEdges)

\* C1: no leg of any plan has a route_id in the graph's disruption set.
C1_NoDisruptedLeg ==
    \A p \in Plans : \A i \in 1..Len(p.legs) :
        p.legs[i].route_id \notin _disrupted_route_ids

\* C1 witness: a plan with a transit leg is returned while a route that has
\* edges in the graph is disrupted.
C1_Witness ==
    /\ pc = "done"
    /\ \E s \in DOMAIN _transit_edges : \E i \in 1..Len(_transit_edges[s]) :
            _transit_edges[s][i].route_id \in _disrupted_route_ids
    /\ \E p \in Plans : \E i \in 1..Len(p.legs) : p.legs[i].mode # "walk"

\* C2: every transit leg after the first departs at least 5 minutes (4 at a
\* stop with hub_score > 0.7) after the previous leg arrives.
C2_NoFragileTransfer ==
    \A p \in Plans : \A i \in 2..Len(p.legs) :
        p.legs[i].mode # "walk" =>
            _minutes_between(p.legs[i - 1].arrival_time,
                             p.legs[i].departure_time)
                >= (IF _stops[p.legs[i].from_stop_atco].hub_score > 7
                    THEN Mins(4) ELSE Mins(5))

\* C2 witness: a returned plan changes vehicle at a hub with a wait of
\* exactly 4 minutes.
C2_Witness ==
    /\ pc = "done"
    /\ \E p \in Plans : \E i \in 2..Len(p.legs) :
        /\ p.legs[i].mode # "walk"
        /\ p.legs[i - 1].mode # "walk"
        /\ _stops[p.legs[i].from_stop_atco].hub_score > 7
        /\ _minutes_between(p.legs[i - 1].arrival_time,
                            p.legs[i].departure_time) = Mins(4)

\* C3: a plan returned by the single-pair search costs no more than any
\* feasible journey from origin to destination.
C3_SearchOptimal ==
    (pc = "returned" /\ plan # <<>> /\ origin_atco # destination_atco) =>
        \A c \in FeasibleCosts : plan[1].total_cost <= c

\* C4: the search returns no plan only when no feasible journey exists.
C4_SearchComplete ==
    (pc = "returned" /\ plan = <<>> /\ expansions < MAX_EXPANSIONS) =>
        FeasibleCosts = {}

\* C5: the returned list is ordered by non-decreasing total_cost.
C5_BestFirst ==
    pc = "done" =>
        \A i \in 1..(Len(results) - 1) :
            results[i].total_cost <= results[i + 1].total_cost

\* C6: the first-leg triples of the returned plans are pairwise distinct.
C6_DistinctFirstLegs ==
    pc = "done" =>
        \A i \in 1..Len(results) : \A j \in (i + 1)..Len(results) :
            FirstLegKey(results[i]) # FirstLegKey(results[j])

\* C7: at most max_results plans are returned, a search after the first
\* starts only when the previous search returned a plan, and fewer than
\* max_results plans are returned only after a search that returned none.
C7_Step ==
    /\ Len(results') <= max_results'
    /\ searches' <= max_results'
    /\ (searches' # searches /\ searches' > 1) =>
            (pc = "returned" /\ plan # <<>>)
    /\ (pc' = "done" /\ Len(results') < max_results') =>
            (plan' = <<>> /\ searches' = Len(results') + 1)
C7_AlternativesLoop == [][C7_Step]_vars

\* C7 witness: two plans were asked for, the second search ran and found
\* nothing, one plan is returned.
C7_Witness ==
    /\ pc = "done"
    /\ max_results = 2
    /\ searches = 2
    /\ Len(results) = 1
    /\ plan = <<>>

\* C8: adjacent legs meet at one stop and the later leg departs at or after
\* the clock at which the earlier one arrives.
C8_LegsChain ==
    \A p \in Plans : \A i \in 1..(Len(p.legs) - 1) :
        /\ p.legs[i].to_stop_atco = p.legs[i + 1].from_stop_atco
        /\ p.legs[i + 1].departure_time >= p.legs[i].arrival_time

\* C8 witness: a returned plan has a transit leg departing strictly after
\* the previous leg arrives.
C8_Witness ==
    /\ pc = "done"
    /\ \E p \in Plans : \E i \in 1..(Len(p.legs) - 1) :
        /\ p.legs[i + 1].mode # "walk"
        /\ p.legs[i + 1].departure_time > p.legs[i].arrival_time

\* C9: a plan with legs runs from the origin to the destination, and the
\* edge path behind it is a chain from the origin that visits no stop twice.
C9_OriginToDestination ==
    /\ \A p \in Plans : p.legs # <<>> =>
        /\ p.legs[1].from_stop_atco = origin_atco
        /\ p.legs[Len(p.legs)].to_stop_atco = destination_atco
    /\ (pc = "returned" /\ plan # <<>> /\ plan[1].legs # <<>>) =>
        LET path == EdgePath
        IN  /\ path # <<>>
            /\ path[1][1].from_stop = origin_atco
            /\ path[Len(path)][1].to_stop = destination_atco
            /\ \A i \in 1..(Len(path) - 1) :
                    path[i][1].to_stop = path[i + 1][1].from_stop
            /\ Cardinality({origin_atco}
                    \cup {path[i][1].to_stop : i \in 1..Len(path)})
                = Len(path) + 1

\* C9 witness: a plan reconstructed from a path of three edges.
C9_Witness ==
    /\ pc = "returned"
    /\ plan # <<>>
    /\ Len(EdgePath) >= 2
    /\ Len(plan[1].legs) >= 2

\* C10: no two consecutive legs are transit legs of the same mode and route.
C10_RunsMerged ==
    \A p \in Plans : \A i \in 1..(Len(p.legs) - 1) :
        (p.legs[i].mode # "walk" /\ p.legs[i + 1].mode # "walk") =>
            <<p.legs[i].mode, p.legs[i].route_id>>
                # <<p.legs[i + 1].mode, p.legs[i + 1].route_id>>

\* C10 witness: two consecutive edges of one route became one leg.
C10_Witness ==
    /\ pc = "returned"
    /\ plan # <<>>
    /\ \E i \in 1..(Len(EdgePath) - 1) :
        /\ EdgePath[i][1].kind = "transit"
        /\ EdgePath[i + 1][1].kind = "transit"
        /\ EdgePath[i][1].route_id = EdgePath[i + 1][1].route_id
    /\ Len(plan[1].legs) < Len(EdgePath)

\* C11: every plan a search produces has at least one leg, and find_journeys
\* never ends by raising, whatever the query (origin = destination included).
C11_LegsNonEmpty ==
    /\ \A p \in Plans : p.legs # <<>>
    /\ pc # "raised"

\* The graph holds nothing: no stop, route, edge or disruption.
GraphIsEmpty ==
    /\ DOMAIN _stops = {}
    /\ DOMAIN _routes = {}
    /\ DOMAIN _transit_edges = {}
    /\ DOMAIN _walking_edges = {}
    /\ _disrupted_route_ids = {}

\* C12: on the empty graph every call of find_journeys ends by returning
\* the empty list.
C12_EmptyGraph ==
    (GraphIsEmpty /\ pc \in {"done", "raised"}) =>
        (pc = "done" /\ results = <<>>)

\* C13: when the origin or the destination is not a stop of the graph,
\* find_journeys ends by returning the empty list.
C13_UnknownStop ==
    (/\ pc \in {"done", "raised"}
     /\ \/ get_stop(origin_atco) = <<>>
        \/ get_stop(destination_atco) = <<>>) =>
        (pc = "done" /\ results = <<>>)

\* The graph build_graph returns for the snapshot the present graph was
\* built from.
AsBuilt ==
    build_graph(snapshot.stops, snapshot.routes, snapshot.timetable_entries,
                snapshot.walking_connections, snapshot.disrupted_route_ids)

\* A route is currently disrupted: the mutator called last for it was
\* mark_disrupted, or none was called and build_graph was given its id.
CurrentlyDisrupted(route_id) ==
    IF route_id \in DOMAIN last_mutator
    THEN last_mutator[route_id] = "mark_disrupted"
    ELSE \E i \in 1..Len(snapshot.disrupted_route_ids) :
            snapshot.disrupted_route_ids[i] = route_id

QueryClocks ==
    {Clock(0, 0, 0), Clock(0, 5, 0), Clock(23, 50, 0), Clock(23, 50, 30),
     Clock(23, 56, 0)}

\* C14: the stop, route and edge tables are those build_graph made, and
\* get_outgoing_transit_edges(s, t) is the stored list of s cut down to the
\* edges whose departure second-of-day is at least that of t and whose
\* route is not currently disrupted.
C14_OutgoingEdges ==
    LET g == AsBuilt
    IN  /\ _stops = g.stops
        /\ _routes = g.routes
        /\ _transit_edges = g.transit_edges
        /\ _walking_edges = g.walking_edges
        /\ \A s \in QueryCodes, t \in QueryClocks :
            get_outgoing_transit_edges(s, t) =
                SelectSeq(IF s \in DOMAIN g.transit_edges
                          THEN g.transit_edges[s] ELSE <<>>,
                          LAMBDA e: /\ e.departure_time >= t
                                    /\ ~CurrentlyDisrupted(e.route_id))

\* C14 witness: stop A holds an edge departing 00:05; route 1 was disrupted
\* from the start and then cleared, route 2 was marked; the query at 23:50
\* returns edges, but not the 00:05 one.
C14_Witness ==
    /\ "A" \in DOMAIN _transit_edges
    /\ \E i \in 1..Len(_transit_edges["A"]) :
            /\ _transit_edges["A"][i].departure_time = Clock(0, 5, 0)
            /\ _transit_edges["A"][i].route_id = 1
    /\ snapshot.disrupted_route_ids = <<1>>
    /\ 1 \in DOMAIN last_mutator /\ last_mutator[1] = "clear_disruption"
    /\ 2 \in DOMAIN last_mutator /\ last_mutator[2] = "mark_disrupted"
    /\ LET late == get_outgoing_transit_edges("A", Clock(23, 50, 0))
       IN  /\ late # <<>>
           /\ \A i \in 1..Len(late) : late[i].departure_time # Clock(0, 5, 0)

\* C15: for every stop, the list get_outgoing_transit_edges(s, 00:00:00)
\* is in ascending order of departure time.
C15_SortedByDeparture ==
    \A s \in Stops :
        LET edges == get_outgoing_transit_edges(s, Clock(0, 0, 0))
        IN  \A i \in 1..(Len(edges) - 1) :
                edges[i].departure_time <= edges[i + 1].departure_time

\* C16: each walking connection (a, b, mins, dist) of the snapshot is in the
\* graph as an edge a -> b among get_walking_edges(a) and as an edge b -> a
\* among get_walking_edges(b), both with mins and dist.
C16_WalkingBothWays ==
    \A k \in 1..Len(snapshot.walking_connections) :
        LET c == snapshot.walking_connections[k]
            Has(f, t) ==
                \E i \in 1..Len(get_walking_edges(f)) :
                    LET e == get_walking_edges(f)[i]
                    IN  /\ e.kind = "walk"
                        /\ e.from_stop = f /\ e.to_stop = t
                        /\ e.walk_time_mins = c[3]
                        /\ e.distance_metres = c[4]
        IN  Has(c[1], c[2]) /\ Has(c[2], c[1])

\* C16 witness: a graph built from two walking connections that share stop
\* C, after a mutator was called.
C16_Witness ==
    /\ Len(snapshot.walking_connections) = 2
    /\ Len(get_walking_edges("C")) = 2
    /\ DOMAIN last_mutator # {}

\* The set of transit edges the graph holds.
TransitEdgeSet ==
    UNION {{_transit_edges[s][i] : i \in 1..Len(_transit_edges[s])} :
            s \in DOMAIN _transit_edges}

\* C17: build_graph on the snapshot with its timetable rows reversed emits
\* the same set of transit edges.
C17_Step ==
    (snapshot'.timetable_entries = Reverse(snapshot.timetable_entries)) =>
        TransitEdgeSet' = TransitEdgeSet
C17_ReversalInvariant == [][C17_Step]_vars

\* C18: the duration of a plan is the time from its first leg's departure
\* to its last leg's arrival, taken modulo one day.
C18_Duration ==
    \A p \in Plans : p.legs # <<>> =>
        p.total_duration_mins =
            ((p.legs[Len(p.legs)].arrival_time - p.legs[1].departure_time
                + SECONDS_PER_DAY) % SECONDS_PER_DAY) * 2

\* C18 witness: a returned plan of one leg that departs before midnight and
\* arrives after it.
C18_Witness ==
    /\ pc = "done"
    /\ \E p \in Plans :
        /\ Len(p.legs) = 1
        /\ p.legs[1].arrival_time < p.legs[1].departure_time
        /\ p.total_duration_mins > 0

\* C19: num_transfers is the number of legs that are not walking legs, less
\* one, and 0 when there is no such leg.
C19_NumTransfers ==
    \A p \in Plans :
        LET vehicle_legs == {i \in 1..Len(p.legs) : p.legs[i].mode # "walk"}
        IN  p.num_transfers =
                (IF vehicle_legs = {} THEN 0
                 ELSE Cardinality(vehicle_legs) - 1)

\* C19 witness: a returned plan of a vehicle leg followed by a walking leg,
\* which has no transfer.
C19_Witness ==
    /\ pc = "done"
    /\ \E p \in Plans :
        /\ Len(p.legs) = 2
        /\ p.legs[1].mode # "walk"
        /\ p.legs[2].mode = "walk"
        /\ p.num_transfers = 0

\* The entries of a heap, and the number of edges of the graph.
Entries(heap) == {heap[i] : i \in 1..Len(heap)}
NumEdges ==
    LET Count(table) ==
            Cardinality(UNION {{<<s, i>> : i \in 1..Len(table[s])} :
                                s \in DOMAIN table})
    IN  Count(_transit_edges) + Count(_walking_edges)

\* C20, one step of a search: a pass pops one entry and counts it, below
\* the ceiling only; every entry a pass pushes is new, costs less than the
\* best cost its stop had (or the stop had none), and no best cost rises;
\* the search returns a plan exactly when the entry popped is the
\* destination, and otherwise returns none only with the queue empty or
\* the ceiling reached.
C20_Step ==
    (pc = "search" /\ pc' \in {"search", "returned"} /\ searches' = searches)
    =>
    LET popping == expansions' = expansions + 1
        pushed == Entries(pq') \ Entries(pq)
    IN  /\ expansions' <= MAX_EXPANSIONS
        /\ popping \/ (expansions' = expansions /\ pc' = "returned")
        /\ popping =>
            /\ pq # <<>> /\ expansions < MAX_EXPANSIONS
            /\ current' \in Entries(pq)
            /\ \A i \in 1..Len(pq) : pq[i].cost >= current'.cost
            /\ Len(pq') = Len(pq) - 1 + Cardinality(pushed)
            /\ \A n \in pushed :
                \/ n.atco_code \notin DOMAIN best_cost
                \/ n.cost < best_cost[n.atco_code]
            /\ \A n \in pushed, m \in pushed :
                (n.atco_code = m.atco_code /\ n # m) => n.cost # m.cost
            /\ \A s \in DOMAIN best_cost :
                s \in DOMAIN best_cost' /\ best_cost'[s] <= best_cost[s]
        /\ pc' = "returned" =>
            IF popping /\ current'.atco_code = destination_atco
            THEN plan' # <<>>
            ELSE /\ ~popping
                 /\ plan' = <<>>
                 /\ pq = <<>> \/ expansions >= MAX_EXPANSIONS

C22_Step ==
    (/\ pc = "search"
     /\ searches' = searches
     /\ expansions' = expansions + 1) =>
        /\ expansions > 0 => current'.cost >= current.cost
        /\ \A n \in Entries(pq') \ Entries(pq) : n.cost >= current'.cost
C22_PoppedCostsAscend == [][C22_Step]_vars

\* C22 witness: the second entry popped arrived on a transit edge whose cost
\* was clamped to zero.
C22_Witness ==
    /\ pc = "search"
    /\ expansions = 2
    /\ current.edge.kind = "transit"
    /\ current.cost = 0
    /\ travel_minutes(current.edge) + hub_bonus(_stops[current.atco_code], 10)
            < 0

\* The positions of an edge path at which a new leg starts: the first, and
\* every one that does not continue the route of the transit edge before
\* it from the stop that edge reached.
RunStarts(path) ==
    {i \in 1..Len(path) :
        \/ i = 1
        \/ ~(/\ path[i - 1][1].kind = "transit"
             /\ path[i][1].kind = "transit"
             /\ path[i - 1][1].route_id = path[i][1].route_id
             /\ path[i - 1][1].to_stop = path[i][1].from_stop)}

\* The first and the last position of the k-th run of an edge path.
RunStart(path, k) ==
    CHOOSE i \in RunStarts(path) :
        Cardinality({j \in RunStarts(path) : j <= i}) = k
RunEnd(path, k) ==
    IF k = Cardinality(RunStarts(path)) THEN Len(path)
    ELSE RunStart(path, k + 1) - 1

\* The clock at which an edge path from the origin reaches the from-stop
\* of its i-th edge.
RECURSIVE PathClock(_, _)
PathClock(path, i) ==
    IF i = 1 THEN departure_time
    ELSE EdgeArrival(PathClock(path, i - 1), path[i - 1][1])

\* The summed cost of the first n edges of an edge path from the origin.
RECURSIVE PathCost(_, _)
PathCost(path, n) ==
    IF n = 0 THEN 0
    ELSE PathCost(path, n - 1) + EdgeCost(PathClock(path, n), path[n][1])

\* C24, one expansion: an outgoing edge of the route of the transit edge the
\* popped entry arrived on is relaxed, whatever the wait.
C24_Step ==
    Expand =>
        LET cur == current'
            edges == get_outgoing_transit_edges(cur.atco_code,
                                                cur.arrival_time)
        IN  \A i \in 1..Len(edges) :
                (/\ cur.edge.kind = "transit"
                 /\ cur.edge.route_id = edges[i].route_id
                 /\ ~ExcludedFirst(cur, edges[i])) =>
                    /\ edges[i].to_stop \in DOMAIN best_cost'
                    /\ best_cost'[edges[i].to_stop] <=
                        cur.cost + EdgeCost(cur.arrival_time, edges[i])

\* C24: a same-route continuation is never filtered as a fragile transfer,
\* and in a plan an edge that continues the route of the edge before it
\* starts no leg of its own.
C24_SameRouteContinuation ==
    /\ [][C24_Step]_vars
    /\ []((pc = "returned" /\ plan # <<>>) =>
            Len(plan[1].legs) = Cardinality(RunStarts(EdgePath)))

\* C24 witness: a plan of one leg over two edges of one route with a dwell
\* of one minute, below every fragile threshold.
C24_Witness ==
    /\ pc = "returned"
    /\ plan # <<>>
    /\ Len(plan[1].legs) = 1
    /\ Len(EdgePath) = 2
    /\ EdgePath[1][1].route_id = EdgePath[2][1].route_id
    /\ _minutes_between(EdgePath[1][1].arrival_time,
                        EdgePath[2][1].departure_time) = Mins(1)

\* The trips of the timetable that an edge belongs to.
TripsOf(e) ==
    LET rows == snapshot.timetable_entries
    IN  {rows[i].trip_id : i \in
            {i \in 1..Len(rows) :
                /\ rows[i].route_id = e.route_id
                /\ rows[i].stop_atco_code = e.from_stop
                /\ rows[i].departure_time = <<e.departure_time>>
                /\ \E j \in 1..Len(rows) :
                    /\ rows[j].route_id = e.route_id
                    /\ rows[j].trip_id = rows[i].trip_id
                    /\ rows[j].stop_sequence = rows[i].stop_sequence + 1
                    /\ rows[j].stop_atco_code = e.to_stop
                    /\ rows[j].arrival_time = <<e.arrival_time>>}}

\* C25: where a plan's path goes from one trip to another at a stop, the
\* wait there is at least the stop's fragile threshold, also when the two
\* trips are of one route.
C25_ChangeOfVehicle ==
    (pc = "returned" /\ plan # <<>>) =>
        \A i \in 1..(Len(EdgePath) - 1) :
            LET a == EdgePath[i][1]
                b == EdgePath[i + 1][1]
            IN  (/\ a.kind = "transit" /\ b.kind = "transit"
                 /\ TripsOf(a) \cap TripsOf(b) = {}
                 /\ b.from_stop \in DOMAIN _stops) =>
                    ~is_fragile_connection(
                        _minutes_between(a.arrival_time, b.departure_time),
                        _stops[b.from_stop])

\* C26: the total cost of a plan is the summed cost of the edges of its
\* path, each taken at the clock at which the path reaches it, and the
\* clocks the reconstruction recorded are those clocks.
C26_CostIsPathCost ==
    (pc = "returned" /\ plan # <<>>) =>
        /\ plan[1].total_cost = PathCost(EdgePath, Len(EdgePath))
        /\ \A i \in 1..Len(EdgePath) :
                EdgePath[i][2] = PathClock(EdgePath, i)

\* C26 witness: a plan over two edges whose destination was first reached
\* at a higher cost.
C26_Witness ==
    /\ pc = "returned"
    /\ plan # <<>>
    /\ Len(EdgePath) >= 2
    /\ plan[1].total_cost > 0
    /\ \E i \in 1..Len(pq) :
        /\ pq[i].atco_code = destination_atco
        /\ pq[i].cost > plan[1].total_cost

\* C27: the k-th leg of a plan, when a transit leg, leaves from the stop and
\* at the departure of the first edge of the k-th run of the path and
\* arrives at the stop and at the arrival of the last edge of that run.
C27_MergedLeg ==
    (pc = "returned" /\ plan # <<>>) =>
        /\ Len(plan[1].legs) = Cardinality(RunStarts(EdgePath))
        /\ \A k \in 1..Len(plan[1].legs) :
            LET leg == plan[1].legs[k]
                first == EdgePath[RunStart(EdgePath, k)][1]
                last == EdgePath[RunEnd(EdgePath, k)][1]
            IN  first.kind = "transit" =>
                    /\ leg.route_id = first.route_id
                    /\ leg.from_stop_atco = first.from_stop
                    /\ leg.departure_time = first.departure_time
                    /\ leg.to_stop_atco = last.to_stop
                    /\ leg.arrival_time = last.arrival_time

\* C27 witness: A to B to C on one route is one leg from A to C that
\* arrives when the second edge does, with no transfer.
C27_Witness ==
    /\ pc = "returned"
    /\ plan # <<>>
    /\ Len(EdgePath) = 2
    /\ Len(plan[1].legs) = 1
    /\ plan[1].legs[1].from_stop_atco = "A"
    /\ plan[1].legs[1].to_stop_atco = "C"
    /\ plan[1].legs[1].departure_time = EdgePath[1][1].departure_time
    /\ plan[1].legs[1].arrival_time = EdgePath[2][1].arrival_time
    /\ EdgePath[2][1].arrival_time # EdgePath[1][1].arrival_time
    /\ plan[1].num_transfers = 0

\* C28: a walking edge of a plan's path is a leg of its own, of mode walk
\* and without a route, that departs at the clock at which the path reaches
\* its from-stop and arrives walk_time_mins later, modulo one day.
C28_WalkingLeg ==
    (pc = "returned" /\ plan # <<>>) =>
        /\ Len(plan[1].legs) = Cardinality(RunStarts(EdgePath))
        /\ \A k \in 1..Len(plan[1].legs) :
            LET leg == plan[1].legs[k]
                i == RunStart(EdgePath, k)
                edge == EdgePath[i][1]
            IN  edge.kind = "walk" =>
                    /\ leg.mode = "walk"
                    /\ leg.route_id = NoRoute
                    /\ leg.from_stop_atco = edge.from_stop
                    /\ leg.to_stop_atco = edge.to_stop
                    /\ leg.departure_time = PathClock(EdgePath, i)
                    /\ leg.arrival_time * 2 =
                        (leg.departure_time * 2 + edge.walk_time_mins)
                            % (SECONDS_PER_DAY * 2)

\* The position of an entry in the order of pushes of the present search.
PushIndex(entry) ==
    CHOOSE i \in 1..Len(push_log) : push_log[i] = entry

\* C23, one pass: the entry popped has the least cost in the queue, and of
\* the queue entries of that cost it is the one pushed first.
C23_Step ==
    (/\ pc = "search"
     /\ searches' = searches
     /\ expansions' = expansions + 1) =>
        \A e \in Entries(pq) :
            /\ current'.cost <= e.cost
            /\ e.cost = current'.cost => PushIndex(current') <= PushIndex(e)

\* C23: the queue is popped by cost, ties in the order of insertion.
C23_TiesInInsertionOrder == [][C23_Step]_vars

\* C29: is_fragile_connection(w, s) is w < 5 at a stop whose hub_score is
\* at most 0.7 and w < 4 at a stop whose hub_score is above 0.7.
C29_FragileThreshold ==
    (call # <<>> /\ call[1].fn = "is_fragile_connection") =>
        LET w == call[1].args[1]
            s == call[1].args[2]
        IN  call[1].result =
                (IF s.hub_score > 7 THEN w < Mins(4) ELSE w < Mins(5))

\* C29 witness: a wait of exactly 4 minutes at a stop of hub_score 0.8 is
\* not fragile.
C29_Witness ==
    /\ call # <<>>
    /\ call[1].fn = "is_fragile_connection"
    /\ call[1].args[1] = Mins(4)
    /\ call[1].args[2].hub_score = 8
    /\ call[1].result = FALSE

\* C30: _minutes_between(t_from, t_to) is (t_to - t_from) modulo one day,
\* at least 0 and less than 1440 minutes; the wait transit_edge_cost
\* computes is never negative, and transit_edge_cost returns None exactly
\* when that wait is negative.
C30_MinutesBetween ==
    call # <<>> =>
        /\ call[1].fn = "_minutes_between" =>
            /\ call[1].result =
                ((call[1].args[2] - call[1].args[1]) % SECONDS_PER_DAY) * 2
            /\ call[1].result >= 0
            /\ call[1].result < DayUnits
        /\ call[1].fn = "transit_edge_cost" =>
            LET wait == _minutes_between(call[1].args[2],
                                         call[1].args[1].departure_time)
            IN  /\ wait >= 0
                /\ wait < DayUnits
                /\ (call[1].result = <<>>) <=> (wait < 0)

\* C30 witness: from 23:59:59 to 00:00:00 is one second, not a negative
\* number of minutes.
C30_Witness ==
    /\ call # <<>>
    /\ call[1].fn = "_minutes_between"
    /\ call[1].args = <<Clock(23, 59, 59), Clock(0, 0, 0)>>
    /\ call[1].result = 2

\* C21, one step: the graph is left as it was, and the locals of the call
\* that is not running are left as they were, or the two calls change
\* places with their locals intact.
C21_Step ==
    /\ UNCHANGED graphVars
    /\ (suspended # <<>> /\ suspended' # <<>>) =>
        \/ suspended' = suspended
        \/ suspended' = <<Locals>> /\ Locals' = suspended[1]

\* C21: no step of a search changes the graph or the other call's locals,
\* and a call that ends while interleaved with another returns what the
\* same query returned when it ran alone on the same graph.
C21_SearchesIsolated ==
    /\ [][C21_Step]_vars
    /\ []((/\ solo # <<>>
           /\ pc \in {"done", "raised"}
           /\ Query = solo[1].query) =>
                (pc = solo[1].pc /\ results = solo[1].results))

\* C21 witness: a call has returned the two plans its query returned when
\* run alone, while the other thread's call, for another destination, is in
\* the middle of its second search with another exclusion set.
C21_Witness ==
    /\ solo # <<>>
    /\ pc = "done"
    /\ Query = solo[1].query
    /\ Len(results) = 2
    /\ suspended # <<>>
    /\ suspended[1].pc = "search"
    /\ suspended[1].searches = 2
    /\ suspended[1].expansions >= 1
    /\ suspended[1].destination_atco # destination_atco
    /\ suspended[1].excluded_first_edges # excluded_first_edges

====
